---- MODULE Spec2Model ----
(***************************************************************************)
(* winit-runtime: the EventSource listener list (src/src/event.rs) and the *)
(* host-loop bridge (src/src/executor/mod.rs) as state machines.           *)
(***************************************************************************)
EXTENDS Integers, Sequences, FiniteSets, TLC

\* ------------------------------------------------------------------ bounds
NFut == 2        \* futures created by on()/once() on the one source
NWakers == 2     \* distinct wakers a poll may supply
MaxEmits == 2    \* emits on the source
MaxLoopEmits == 4 \* emits on the source while the looping task runs
NTasks == 2      \* tasks spawned on the executor, the main task included
MaxTime == 2     \* the clock (instant::now) runs from 0 to MaxTime
MaxDelay == 2    \* wait(d) is called with d in 1..MaxDelay
MaxHostEvents == 2 \* window, device, redraw, resumed and suspended events delivered
NTimers == 2     \* timer futures made by ExecutorTimer::deadline
MaxStamp == 3    \* largest timestamp and clock reading of the ExecutorTimer

Futures == 1..NFut
Wakers == 1..NWakers
NoWaker == 0
NoFuture == 0
NoThread == "none"
Emitter == "emitter"
Tasks == 1..NTasks
ETimers == 1..NTimers
Timestamps == 0..MaxStamp
MainTask == 1
NoTask == 0
Delays == 1..MaxDelay
Kinds == {"plain", "timer", "exit"}
UserCodes == {7}

VARIABLES
    \* ---- EventSource<T> and its EventFnFutures (event.rs)
    kind,       \* kind[f]: "on" (closure = user predicate) or "once" (the wrapper of once())
    fstate,     \* "cold" (node uninitialised), "linked" (node initialised), "dropped"
    fpc,        \* owner's position: "idle", or "dropWait" (inside drop, before list.lock())
    list,       \* PinList, front to back
    item,       \* ListenerItem of each linked node: [done, waker]
    lock,       \* holder of EventSource::list's mutex
    epc,        \* emitter's position: "idle" or "walk" (inside emit, holding the lock)
    cursor,     \* emit's cursor: index into list
    inPred,     \* the future whose closure emit is executing, or NoFuture
    emitSeq,    \* number of emits begun; the payload of emit number n is n
    res,        \* once(): the captured `res` (0 = None, n = Some(payload n))
    \* ---- the task of examples/main.rs that loops on device().on(..).await
    cur,        \* the future it awaits (NoFuture: no such task)
    tpc,        \* "none", "spawned", "await", "drop", "dropping", "repoll"
    tsched,     \* its runnable is scheduled
    firstPollAt, \* emitSeq at its first poll (-1 before)
    \* ---- history (of a future: kept while its frame lives)
    calls,      \* calls[f]: user-predicate invocations, [ev, some]
    walk,       \* futures whose closure the emit in progress has invoked, in order
    snap,       \* the list as it was when the emit in progress took the lock
    linkAt,     \* emitSeq when f was linked (-1 before)
    linkNo,     \* f was the linkNo[f]-th future linked (0 before)
    nlinks,     \* number of futures linked so far
    ready,      \* a poll of f returned Ready
    output,     \* once(): the value the future resolved to (0 before)
    awaiting,   \* waker supplied by the latest poll of f that returned Pending
    wakes,      \* wakers woken by emit on behalf of f, in order
    observed,   \* payloads seen by the looping task's predicates, in order
    \* ---- the host loop and the bridge (executor/mod.rs)
    hpc,        \* host's position in its iteration
    cause,      \* StartCause of the iteration: "Init" or "Other"
    cf,         \* the host's ControlFlow
    hostSticky, \* the host keeps ExitWithCode whatever the callback writes later
    proxy,      \* user events sent through the EventLoopProxy, not yet delivered
    queue,      \* the flume channel of runnables
    drain,      \* poll_tasks: the runnables drained and not yet run
    ret,        \* the position the host resumes at after poll_tasks
    now,        \* instant::now()
    spc,        \* the task a scheduling thread has queued without yet sending Wake
    \* ---- tasks and the TimerService
    tkind,      \* what the task does: "plain", "timer", "exit" ("none": not spawned)
    tst,        \* "new", "start" (spawned, never run), "wait" (pending), "done"
    tdl,        \* deadline of the task's timer future (-1: none)
    treg,       \* its timer: "none", "registered", "expired"
    \* ---- history
    exitReq,    \* code of the first Exit the bridge handled (-1: none)
    exitCode,   \* the code the host returned (-1: not exited)
    enqSince,   \* runnables queued since MainEventsCleared last drained the channel
    received,   \* the window, device, redraw, resumed and suspended events the bridge got
    emitted,    \* the event sources the bridge emitted on, in order
    access,     \* the calls of with_eventloop_target, and their outcome
    spawned,    \* the calls of spawn_local: the calling thread, the task scheduled
    \* ---- ExecutorTimer
    next_expiration_cache, \* ExecutorTimer.next_expiration, the AtomicU64 (0: none)
    upc,        \* update_next: "idle", "store" (service read, store not yet done)
    unext,      \* the value update_next read from the service and is about to store
    est,        \* a timer future: "new", "created", "unpolled", "registered", "expired", "done"
    edl,        \* its timestamp (-1: not created)
    eclock,     \* instant::now() as u64
    missed      \* registered timers an update_next call at or after their timestamp left pending

srcVars == <<kind, fstate, fpc, list, item, lock, epc, cursor, inPred, emitSeq, res>>
loopVars == <<cur, tpc, tsched, firstPollAt>>
histVars == <<calls, walk, snap, linkAt, linkNo, nlinks, ready, output, awaiting,
              wakes, observed>>

hostVars == <<hpc, cause, cf, hostSticky, proxy, queue, drain, ret, now, spc>>
taskVars == <<tkind, tst, tdl, treg>>
exHistVars == <<exitReq, exitCode, enqSince>>
etVars == <<next_expiration_cache, upc, unext, est, edl, eclock, missed>>
dispVars == <<received, emitted, access, spawned, etVars>>
execVars == <<hostVars, taskVars, exHistVars, dispVars>>
evVars == <<srcVars, loopVars, histVars>>

vars == <<evVars, execVars>>
restVars == <<evVars, hostVars, taskVars, exHistVars, received, emitted, access, spawned>>

\* ------------------------------------------------------------ helpers
\* ExecutorTimer::new: no timer yet, the cached next expiration is 0.
ExecutorTimerNew ==
    /\ next_expiration_cache = 0
    /\ upc = "idle"
    /\ unext = 0
    /\ est = [e \in ETimers |-> "new"]
    /\ edl = [e \in ETimers |-> -1]
    /\ eclock = 0
    /\ missed = {}

Range(s) == {s[i] : i \in 1..Len(s)}

\* ListenerItem::new
ListenerItemNew == [done |-> FALSE, waker |-> NoWaker]

\* Waker::will_wake
will_wake(a, b) == a = b

\* ListenerItem::update_waker: the guard's `waker` is the binding of the
\* pattern `Some(ref waker)`, so the stored waker is compared with itself.
update_waker(it, w) ==
    IF it.waker # NoWaker /\ will_wake(it.waker, it.waker)
    THEN it
    ELSE [it EXCEPT !.waker = w]

\* ListenerItem::poll, given the closure's answer: the new done flag (also
\* the value poll returns).
ListenerItemPoll_overwrite(it, some) == some
ListenerItemPoll(it, some) == IF some /\ ~it.done THEN TRUE ELSE it.done

\* ListenerItem::poll evaluates `closure(event).is_some() && !self.done`: the
\* closure is called whatever `done` is.
ClosureInvoked_shortCircuit(it) == ~it.done
ClosureInvoked(it) == TRUE

\* The closure once() hands to on(), given the user predicate's answer:
\* whether the user predicate runs, the closure's answer, the new `res`.
OnceClosure_unguarded(r, ev, some) ==
    [runs |-> TRUE, some |-> some, res |-> IF some THEN ev ELSE r]
OnceClosure(r, ev, some) ==
    IF r # 0
    THEN [runs |-> FALSE, some |-> FALSE, res |-> r]
    ELSE [runs |-> TRUE, some |-> some, res |-> IF some THEN ev ELSE r]

\* The closure a future registers: on() registers the user predicate itself.
Closure(f, ev, some) ==
    IF kind[f] = "once"
    THEN OnceClosure(res[f], ev, some)
    ELSE [runs |-> TRUE, some |-> some, res |-> res[f]]

\* PinList::push_back
push_front(l, f) == <<f>> \o l
push_back(l, f) == Append(l, f)

\* Node::reset: the node is unlinked
reset_keep(l, f) == l
reset(l, f) == SelectSeq(l, LAMBDA y : y # f)

\* self.list.lock(): blocks until the mutex is free
LockFree == lock = NoThread

\* winit's ControlFlow and the bridge's ExecutorEvent
ControlFlow(t, v) == [t |-> t, v |-> v]
UserEvent(e, v) == [e |-> e, v |-> v]

\* ------------------------------------------------------------ Init
\* Odd futures come from on(), even ones from once().
KindOf(f) == IF f % 2 = 1 THEN "on" ELSE "once"

InitSource ==
    /\ fstate = [f \in Futures |-> "cold"]
    /\ fpc = [f \in Futures |-> "idle"]
    /\ list = <<>>
    /\ item = [f \in Futures |-> ListenerItemNew]
    /\ lock = NoThread
    /\ epc = "idle"
    /\ cursor = 0
    /\ inPred = NoFuture
    /\ emitSeq = 0
    /\ res = [f \in Futures |-> 0]
    /\ calls = [f \in Futures |-> <<>>]
    /\ walk = <<>>
    /\ snap = <<>>
    /\ linkAt = [f \in Futures |-> -1]
    /\ linkNo = [f \in Futures |-> 0]
    /\ nlinks = 0
    /\ ready = [f \in Futures |-> FALSE]
    /\ output = [f \in Futures |-> 0]
    /\ awaiting = [f \in Futures |-> NoWaker]
    /\ wakes = [f \in Futures |-> <<>>]
    /\ observed = <<>>

\* run() up to event_loop.run: the main task is spawned (its schedule
\* callback queues the runnable and sends Wake), the clock reads 0.
InitHost ==
    /\ hpc = "NewEvents"
    /\ cause = "Init"
    /\ cf = ControlFlow("Poll", 0)
    /\ proxy = <<UserEvent("Wake", 0)>>
    /\ queue = <<MainTask>>
    /\ drain = <<>>
    /\ ret = "none"
    /\ now = 0
    /\ spc = NoTask
    /\ tst = [t \in Tasks |-> IF t = MainTask THEN "start" ELSE "new"]
    /\ tdl = [t \in Tasks |-> -1]
    /\ treg = [t \in Tasks |-> "none"]
    /\ exitReq = -1
    /\ exitCode = -1
    /\ enqSince = {MainTask}
    /\ received = <<>>
    /\ emitted = <<>>
    /\ access = <<>>
    /\ spawned = <<>>
    /\ ExecutorTimerNew

\* The executor as the EventSource specifications leave it.
ExecIdle ==
    /\ InitHost
    /\ hostSticky = TRUE
    /\ tkind = [t \in Tasks |-> IF t = MainTask THEN "plain" ELSE "none"]

Init ==
    /\ InitSource
    /\ ExecIdle
    /\ kind = [f \in Futures |-> KindOf(f)]
    /\ cur = NoFuture
    /\ tpc = "none"
    /\ tsched = FALSE
    /\ firstPollAt = -1

\* ------------------------------------------------------------ EventFnFuture
\* The list after poll's `match this.node.initialized_mut()`.
PollLink_unlinkOnReady(f) ==
    IF fstate[f] = "cold" THEN push_back(list, f)
    ELSE IF item[f].done THEN reset(list, f) ELSE list
PollLink_front(f) ==
    IF fstate[f] = "cold" THEN push_front(list, f) ELSE list
PollLink(f) ==
    IF fstate[f] = "cold" THEN push_back(list, f) ELSE list

\* poll's `this.source.list.lock()`
PollLock_none == TRUE
PollLock == LockFree

\* EventFnFuture::poll with cx.waker() = w. The temporary that once() awaits
\* is dropped as soon as its poll returned Ready.
PollBody(f, w) ==
    /\ fstate[f] # "dropped"
    /\ fpc[f] = "idle"
    /\ PollLock
    /\ LET it == IF fstate[f] = "cold" THEN ListenerItemNew ELSE item[f]
       IN /\ list' = PollLink(f)
          /\ fstate' = [fstate EXCEPT ![f] = "linked"]
          /\ IF fstate[f] = "cold"
             THEN /\ linkAt' = [linkAt EXCEPT ![f] = emitSeq]
                  /\ linkNo' = [linkNo EXCEPT ![f] = nlinks + 1]
                  /\ nlinks' = nlinks + 1
             ELSE UNCHANGED <<linkAt, linkNo, nlinks>>
          /\ IF it.done
             THEN /\ item' = [item EXCEPT ![f] = it]
                  /\ ready' = [ready EXCEPT ![f] = TRUE]
                  /\ output' = [output EXCEPT ![f] = res[f]]
                  /\ fpc' = IF kind[f] = "once" THEN [fpc EXCEPT ![f] = "dropWait"] ELSE fpc
                  /\ UNCHANGED awaiting
             ELSE /\ item' = [item EXCEPT ![f] = update_waker(it, w)]
                  /\ awaiting' = [awaiting EXCEPT ![f] = w]
                  /\ UNCHANGED <<ready, output, fpc>>
    /\ UNCHANGED <<kind, lock, epc, cursor, inPred, emitSeq, res, calls, walk, snap,
                   wakes, observed>>

Poll(f, w) == PollBody(f, w) /\ UNCHANGED <<loopVars, execVars>>

\* What is left of a future's frame once it is freed.
Freed(f) ==
    /\ fstate' = [fstate EXCEPT ![f] = "dropped"]
    /\ fpc' = [fpc EXCEPT ![f] = "idle"]
    /\ item' = [item EXCEPT ![f] = ListenerItemNew]
    /\ res' = [res EXCEPT ![f] = 0]
    /\ calls' = [calls EXCEPT ![f] = <<>>]
    /\ linkAt' = [linkAt EXCEPT ![f] = -1]
    /\ linkNo' = [linkNo EXCEPT ![f] = 0]
    /\ ready' = [ready EXCEPT ![f] = FALSE]
    /\ output' = [output EXCEPT ![f] = 0]
    /\ awaiting' = [awaiting EXCEPT ![f] = NoWaker]
    /\ wakes' = [wakes EXCEPT ![f] = <<>>]

\* EventFnFuture::drop up to `None => return` / up to `list.lock()`
DropBeginBody(f) ==
    /\ fstate[f] # "dropped"
    /\ fpc[f] = "idle"
    /\ IF fstate[f] = "cold"
       THEN Freed(f)
       ELSE /\ fpc' = [fpc EXCEPT ![f] = "dropWait"]
            /\ UNCHANGED <<fstate, item, res, calls, linkAt, linkNo, ready, output,
                           awaiting, wakes>>
    /\ UNCHANGED <<kind, list, lock, epc, cursor, inPred, emitSeq, walk, snap, nlinks,
                   observed>>

DropBegin(f) == DropBeginBody(f) /\ UNCHANGED <<loopVars, execVars>>

\* drop's `this.source.list.lock()`
DropLock_none == TRUE
DropLock == LockFree

\* EventFnFuture::drop from `list.lock()`: node.reset, then the frame is freed
DropFinishBody(f) ==
    /\ fpc[f] = "dropWait"
    /\ DropLock
    /\ list' = reset(list, f)
    /\ Freed(f)
    /\ UNCHANGED <<kind, lock, epc, cursor, inPred, emitSeq, walk, snap, nlinks,
                   observed>>

DropFinish(f) == DropFinishBody(f) /\ UNCHANGED <<loopVars, execVars>>

\* ------------------------------------------------------------ EventSource::emit
\* emit is called on the host thread, which is not inside a task's poll
HostFree == tpc \in {"none", "spawned", "await"}

\* emit: `self.list.lock()` and `cursor_front_mut()`
EmitLock ==
    /\ UNCHANGED execVars
    /\ epc = "idle"
    /\ HostFree
    /\ emitSeq < (IF tpc = "none" THEN MaxEmits ELSE MaxLoopEmits)
    /\ LockFree
    /\ lock' = Emitter
    /\ epc' = "walk"
    /\ cursor' = 1
    /\ emitSeq' = emitSeq + 1
    /\ snap' = list
    /\ walk' = <<>>
    /\ UNCHANGED <<kind, fstate, fpc, list, item, inPred, res, calls, linkAt, linkNo,
                   nlinks, ready, output, awaiting, wakes, observed>>
    /\ UNCHANGED loopVars

\* emit: `if node.poll(..) { if let Some(waker) = node.waker.take() { wake } }`
ShouldWake_everyEmit(done, w) == w # NoWaker
ShouldWake(done, w) == done /\ w # NoWaker

\* emit: `cursor.protected_mut()` is Some(node); node.poll enters the closure
EmitCall ==
    /\ UNCHANGED execVars
    /\ epc = "walk"
    /\ inPred = NoFuture
    /\ cursor <= Len(list)
    /\ inPred' = list[cursor]
    /\ UNCHANGED <<kind, fstate, fpc, list, item, lock, epc, cursor, emitSeq, res>>
    /\ UNCHANGED <<loopVars, histVars>>

\* emit: where the cursor stands after a node whose poll returned `done`
EmitNext_stopOnDone(done) == IF done THEN Len(list) + 1 ELSE cursor + 1
EmitNext(done) == cursor + 1

\* emit: the closure returns (the user predicate answered `some`), node.poll
\* sets done, the waker is taken and woken, cursor.move_next()
EmitReturn(some) ==
    /\ UNCHANGED execVars
    /\ epc = "walk"
    /\ inPred # NoFuture
    /\ LET f == inPred
           c == IF ClosureInvoked(item[f])
                THEN Closure(f, emitSeq, some)
                ELSE [runs |-> FALSE, some |-> FALSE, res |-> res[f]]
           d == ListenerItemPoll(item[f], c.some)
           w == item[f].waker
       IN /\ res' = [res EXCEPT ![f] = c.res]
          /\ calls' = IF c.runs
                      THEN [calls EXCEPT ![f] = Append(@, [ev |-> emitSeq, some |-> some])]
                      ELSE calls
          /\ observed' = IF c.runs /\ f = cur THEN Append(observed, emitSeq) ELSE observed
          /\ IF ShouldWake(d, w)
             THEN /\ item' = [item EXCEPT ![f] = [done |-> d, waker |-> NoWaker]]
                  /\ wakes' = [wakes EXCEPT ![f] = Append(@, w)]
                  /\ tsched' = (tsched \/ f = cur)
             ELSE /\ item' = [item EXCEPT ![f] = [done |-> d, waker |-> w]]
                  /\ UNCHANGED <<wakes, tsched>>
          /\ walk' = Append(walk, f)
          /\ cursor' = EmitNext(d)
    /\ inPred' = NoFuture
    /\ UNCHANGED <<kind, fstate, fpc, list, lock, epc, emitSeq, cur, tpc, firstPollAt,
                   snap, linkAt, linkNo, nlinks, ready, output, awaiting>>

\* emit: `cursor.protected_mut()` is None; the guard is dropped
EmitUnlock ==
    /\ UNCHANGED execVars
    /\ epc = "walk"
    /\ inPred = NoFuture
    /\ cursor > Len(list)
    /\ lock' = NoThread
    /\ epc' = "idle"
    /\ cursor' = 0
    /\ walk' = <<>>
    /\ snap' = <<>>
    /\ UNCHANGED <<kind, fstate, fpc, list, item, inPred, emitSeq, res>>
    /\ UNCHANGED <<loopVars, calls, linkAt, linkNo, nlinks, ready, output, awaiting,
                   wakes, observed>>

\* ------------------------------------------------------------ specification
\* Futures polled by one task each, whose waker does not change.
\* parking_lot's Mutex::lock by a thread: the guard when the mutex is free;
\* otherwise the thread blocks until it is, the holder itself included
MutexLock(holder) == IF holder = NoThread THEN "walk" ELSE "blocked"

\* A predicate calls emit on the source whose emit has invoked it:
\* `self.list.lock()` on the thread that holds the lock
EmitReentrant ==
    /\ UNCHANGED execVars
    /\ epc = "walk"
    /\ inPred # NoFuture
    /\ epc' = MutexLock(lock)
    /\ UNCHANGED <<kind, fstate, fpc, list, item, lock, cursor, inPred, emitSeq, res>>
    /\ UNCHANGED <<loopVars, histVars>>

TaskWaker == 1

Next ==
    \/ \E f \in Futures : Poll(f, TaskWaker)
    \/ \E f \in Futures : DropBegin(f)
    \/ \E f \in Futures : DropFinish(f)
    \/ EmitLock
    \/ EmitCall
    \/ \E some \in BOOLEAN : EmitReturn(some)
    \/ EmitUnlock

Spec == Init /\ [][Next]_vars

\* Future 1 is polled with any waker (its scheduler changes it between
\* polls); the other futures are never polled.
NextReentrant ==
    \/ Next
    \/ EmitReentrant

SpecReentrant == Init /\ [][NextReentrant]_vars

NextWake ==
    \/ \E w \in Wakers : Poll(1, w)
    \/ \E f \in Futures : DropBegin(f)
    \/ \E f \in Futures : DropFinish(f)
    \/ EmitLock
    \/ EmitCall
    \/ \E some \in BOOLEAN : EmitReturn(some)
    \/ EmitUnlock

SpecWake == Init /\ [][NextWake]_vars

\* ------------------------------------------------------------ the looping task
\* examples/main.rs: loop { device.on(|..| { ..; Some(()) }).await; }
\* Future number n is the one the n-th iteration creates.
InitLoop ==
    /\ InitSource
    /\ ExecIdle
    /\ kind = [f \in Futures |-> "on"]
    /\ cur = 1
    /\ tpc = "spawned"
    /\ tsched = TRUE
    /\ firstPollAt = -1

\* The runnable runs: the task polls the future it awaits. A Ready poll ends
\* the await (the temporary is dropped next); a Pending one suspends the task.
TaskPoll ==
    /\ UNCHANGED execVars
    /\ tsched
    /\ tpc \in {"spawned", "await", "repoll"}
    /\ epc = "idle"
    /\ PollBody(cur, TaskWaker)
    /\ firstPollAt' = IF firstPollAt < 0 THEN emitSeq ELSE firstPollAt
    /\ IF fstate[cur] = "linked" /\ item[cur].done
       THEN /\ cur < NFut
            /\ tpc' = "drop"
            /\ UNCHANGED tsched
       ELSE /\ tpc' = "await"
            /\ tsched' = FALSE
    /\ UNCHANGED cur

\* `.await` returned: the EventFnFuture temporary is dropped
TaskDropBegin ==
    /\ UNCHANGED execVars
    /\ tpc = "drop"
    /\ DropBeginBody(cur)
    /\ tpc' = "dropping"
    /\ UNCHANGED <<cur, tsched, firstPollAt>>

\* the drop completes and the loop creates the next future
TaskDropFinish ==
    /\ UNCHANGED execVars
    /\ tpc = "dropping"
    /\ DropFinishBody(cur)
    /\ cur' = cur + 1
    /\ tpc' = "repoll"
    /\ UNCHANGED <<tsched, firstPollAt>>

\* Any clone of the task's waker may be woken, also while the listener is
\* not done: the schedule callback queues the runnable again.
TaskWake ==
    /\ UNCHANGED execVars
    /\ tpc = "await"
    /\ ~tsched
    /\ tsched' = TRUE
    /\ UNCHANGED <<srcVars, histVars, cur, tpc, firstPollAt>>

NextLoop ==
    \/ TaskPoll
    \/ TaskWake
    \/ TaskDropBegin
    \/ TaskDropFinish
    \/ EmitLock
    \/ EmitCall
    \/ EmitReturn(TRUE)
    \/ EmitUnlock

SpecLoop == InitLoop /\ [][NextLoop]_vars

\* ------------------------------------------------------------ TimerService
\* futures_intrusive's TimerService, as the bridge uses it.
Registered == {t \in Tasks : treg[t] = "registered"}

\* check_expirations: the registered timers with deadline <= now, each in
\* turn from the earliest deadline on (ties in any order)
ExpiredAt_exactOnly(n) == {t \in Registered : tdl[t] = n}
ExpiredAt(n) == {t \in Registered : tdl[t] <= n}

ExpiryOrders(E) ==
    {o \in [1..Cardinality(E) -> E] :
        /\ \A i, j \in 1..Cardinality(E) : i # j => o[i] # o[j]
        /\ \A i, j \in 1..Cardinality(E) : i < j => tdl[o[i]] <= tdl[o[j]]}

\* next_expiration: the earliest registered deadline (-1: None)
next_expiration ==
    IF Registered = {} THEN -1
    ELSE CHOOSE d \in {tdl[t] : t \in Registered} :
             \A t \in Registered : d <= tdl[t]

\* ------------------------------------------------------------ scheduling
Wake == UserEvent("Wake", 0)
Wakes(n) == [i \in 1..n |-> Wake]

Scheduled(t) == t \in Range(queue) \/ t \in Range(drain)

\* The schedule callback, first half: task_sender.send(runnable)
SendRunnable_front(t) ==
    /\ queue' = <<t>> \o queue
    /\ enqSince' = enqSince \cup {t}
SendRunnable(t) ==
    /\ queue' = Append(queue, t)
    /\ enqSince' = enqSince \cup {t}

\* ExecutorHandle::spawn from any thread: the task is created and
\* runnable.schedule() queues it; the Wake follows (SchedWake)
Spawn(t, k) ==
    /\ hpc # "Exited"
    /\ tst[t] = "new"
    /\ \A u \in Tasks : u < t => tst[u] # "new"
    /\ spc = NoTask
    /\ tkind' = [tkind EXCEPT ![t] = k]
    /\ tst' = [tst EXCEPT ![t] = "start"]
    /\ SendRunnable(t)
    /\ spc' = t
    /\ UNCHANGED <<hpc, cause, cf, hostSticky, proxy, drain, ret, now, tdl, treg,
                   exitReq, exitCode>>
    /\ UNCHANGED <<evVars, dispVars>>

\* A waker of a pending task is woken on any thread: the schedule callback
\* queues the runnable, unless it is scheduled already
ForeignWake(t) ==
    /\ hpc # "Exited"
    /\ tkind[t] = "plain"
    /\ tst[t] = "wait"
    /\ ~Scheduled(t)
    /\ spc = NoTask
    /\ SendRunnable(t)
    /\ spc' = t
    /\ UNCHANGED <<hpc, cause, cf, hostSticky, proxy, drain, ret, now, exitReq, exitCode>>
    /\ UNCHANGED <<taskVars, evVars, dispVars>>

\* The schedule callback, second half: proxy.send_event(Wake)
SchedWake_none == proxy
SchedWake_proxy == Append(proxy, Wake)

SchedWake ==
    /\ hpc # "Exited"
    /\ spc # NoTask
    /\ proxy' = SchedWake_proxy
    /\ spc' = NoTask
    /\ UNCHANGED <<hpc, cause, cf, hostSticky, queue, drain, ret, now>>
    /\ UNCHANGED <<taskVars, exHistVars, evVars, dispVars>>

\* instant::now() advances, while tasks run and while the host waits
Advance ==
    /\ hpc \in {"Run", "Waiting"}
    /\ now < MaxTime
    /\ now' = now + 1
    /\ UNCHANGED <<hpc, cause, cf, hostSticky, proxy, queue, drain, ret, spc>>
    /\ UNCHANGED <<taskVars, exHistVars, evVars, dispVars>>

\* ------------------------------------------------------------ Executor
\* What the host keeps of a write `*control_flow = v` by the callback.
Written(v) == IF hostSticky /\ cf.t = "Exit" THEN cf ELSE v

\* poll_tasks: `self.task_recv.drain()` takes every runnable in the channel
Drained_one(q) == IF q = <<>> THEN 0 ELSE 1
Drained(q) == Len(q)

\* poll_tasks: `for runnable in drain` runs them in the order they were queued
Reverse(q) == [i \in 1..Len(q) |-> q[Len(q) + 1 - i]]
DrainOrder_lifo(q) == Reverse(q)
DrainOrder(q) == q

\* poll_tasks up to the loop; the host resumes at `to` when all have run
poll_tasks(to) ==
    LET n == Drained(queue)
    IN /\ drain' = DrainOrder(SubSeq(queue, 1, n))
       /\ queue' = SubSeq(queue, n + 1, Len(queue))
       /\ hpc' = IF n = 0 THEN to ELSE "Run"
       /\ ret' = IF n = 0 THEN "none" ELSE to

\* Event::NewEvents(cause), first half: poll_tasks when the cause is Init
OnNewEvents ==
    /\ hpc = "NewEvents"
    /\ IF cause = "Init"
       THEN poll_tasks("Tick")
       ELSE /\ hpc' = "Tick"
            /\ UNCHANGED <<queue, drain, ret>>
    /\ UNCHANGED <<cause, cf, hostSticky, proxy, now, spc>>
    /\ UNCHANGED <<taskVars, exHistVars, evVars, dispVars>>

\* The expired timers whose waker is a task's: a timer future awaited on
\* another thread has that thread's waker
IsTaskTimer(t) == tkind[t] # "foreign"
OnHost(o) == SelectSeq(o, IsTaskTimer)

\* Event::NewEvents, second half: timer.check_expirations(); each expired
\* timer wakes its task, whose schedule callback runs on this thread
OnNewEventsTick ==
    /\ hpc = "Tick"
    /\ \E o \in ExpiryOrders(ExpiredAt(now)) :
        /\ treg' = [t \in Tasks |-> IF t \in Range(o) THEN "expired" ELSE treg[t]]
        /\ queue' = queue \o OnHost(o)
        /\ enqSince' = enqSince \cup Range(OnHost(o))
        /\ proxy' = proxy \o Wakes(Len(OnHost(o)))
    /\ hpc' = "UserEvents"
    /\ UNCHANGED <<cause, cf, hostSticky, drain, ret, now, spc, tkind, tst, tdl,
                   exitReq, exitCode>>
    /\ UNCHANGED <<evVars, dispVars>>

\* Event::UserEvent(Wake) and Event::UserEvent(Exit(code))
OnUserEvent ==
    /\ hpc = "UserEvents"
    /\ proxy # <<>>
    /\ proxy' = Tail(proxy)
    /\ IF Head(proxy).e = "Exit"
       THEN /\ cf' = Written(ControlFlow("Exit", Head(proxy).v))
            /\ exitReq' = IF exitReq = -1 THEN Head(proxy).v ELSE exitReq
       ELSE UNCHANGED <<cf, exitReq>>
    /\ UNCHANGED <<hpc, cause, hostSticky, queue, drain, ret, now, spc, exitCode,
                   enqSince>>
    /\ UNCHANGED <<taskVars, evVars, dispVars>>

\* Event::Resumed and Event::Suspended: dispatch, then poll_tasks
OnResumedPoll ==
    /\ hpc = "UserEvents"
    /\ poll_tasks("UserEvents")
    /\ UNCHANGED <<cause, cf, hostSticky, proxy, now, spc>>
    /\ UNCHANGED <<taskVars, exHistVars, evVars>>

OnResumed ==
    /\ queue # <<>>
    /\ OnResumedPoll
    /\ UNCHANGED dispVars

\* Event::MainEventsCleared: poll_tasks. The host sends it when it has
\* delivered the user events it holds.
OnMainEventsCleared ==
    /\ hpc = "UserEvents"
    /\ proxy = <<>>
    /\ poll_tasks("Redraw")
    /\ enqSince' = {}
    /\ UNCHANGED <<cause, cf, hostSticky, proxy, now, spc, exitReq, exitCode>>
    /\ UNCHANGED <<taskVars, evVars, dispVars>>

\* runnable.run(): the task is polled once on the host thread.
\*   plain: pends on its first poll (its waker is woken elsewhere) or
\*          completes; completes when polled again
\*   timer: wait(d).await - the timer future is created, Wake is sent, the
\*          first poll registers it; completes when polled after the expiry
\*   exit:  exit(code).await - Exit(code) is sent, then pending for ever
\* When the main task completes, Exit(0) is sent.
RunOneTask ==
    /\ hpc = "Run"
    /\ LET t == Head(drain)
           rest == Tail(drain)
           fin == IF t = MainTask THEN <<UserEvent("Exit", 0)>> ELSE <<>>
       IN /\ drain' = rest
          /\ hpc' = IF rest = <<>> THEN ret ELSE "Run"
          /\ ret' = IF rest = <<>> THEN "none" ELSE ret
          /\ \/ /\ tkind[t] = "plain"
                /\ \/ /\ tst[t] = "start"
                      /\ tst' = [tst EXCEPT ![t] = "wait"]
                      /\ UNCHANGED proxy
                   \/ /\ tst' = [tst EXCEPT ![t] = "done"]
                      /\ proxy' = proxy \o fin
                /\ UNCHANGED <<tdl, treg>>
             \/ /\ tkind[t] = "timer"
                /\ tst[t] = "start"
                /\ \E d \in Delays :
                      /\ now + d <= MaxTime
                      /\ tdl' = [tdl EXCEPT ![t] = now + d]
                /\ treg' = [treg EXCEPT ![t] = "registered"]
                /\ tst' = [tst EXCEPT ![t] = "wait"]
                /\ proxy' = Append(proxy, Wake)
             \/ /\ tkind[t] = "timer"
                /\ tst[t] = "wait"
                /\ tst' = [tst EXCEPT ![t] = IF treg[t] = "expired" THEN "done" ELSE "wait"]
                /\ proxy' = IF treg[t] = "expired" THEN proxy \o fin ELSE proxy
                /\ UNCHANGED <<tdl, treg>>
             \/ /\ tkind[t] = "exit"
                /\ \E c \in UserCodes : proxy' = Append(proxy, UserEvent("Exit", c))
                /\ tst' = [tst EXCEPT ![t] = "wait"]
                /\ UNCHANGED <<tdl, treg>>
    /\ UNCHANGED <<cause, cf, hostSticky, queue, now, spc, tkind>>
    /\ UNCHANGED <<exHistVars, evVars>>

RunOne == RunOneTask /\ UNCHANGED dispVars

\* Event::RedrawEventsCleared: the wait until the timer's next expiration
OnRedrawEventsCleared ==
    /\ hpc = "Redraw"
    /\ LET time == next_expiration
       IN cf' = Written(IF time # -1
                        THEN IF time > now
                             THEN ControlFlow("WaitUntil", time)
                             ELSE ControlFlow("Poll", 0)
                        ELSE ControlFlow("Wait", 0))
    /\ hpc' = "Waiting"
    /\ UNCHANGED <<cause, hostSticky, proxy, queue, drain, ret, now, spc>>
    /\ UNCHANGED <<taskVars, exHistVars, evVars, dispVars>>

\* ------------------------------------------------------------ the host
\* The host blocks: the control flow is Wait or WaitUntil(t) with t ahead,
\* and no user event is there to deliver.
Blocked ==
    /\ hpc = "Waiting"
    /\ proxy = <<>>
    /\ \/ cf.t = "Wait"
       \/ cf.t = "WaitUntil" /\ now < cf.v

\* The iteration is over: the host stops on ExitWithCode, and otherwise
\* starts the next iteration as soon as it does not block.
HostNext ==
    /\ hpc = "Waiting"
    /\ IF cf.t = "Exit"
       THEN /\ hpc' = "Exited"
            /\ exitCode' = cf.v
            /\ UNCHANGED cause
       ELSE /\ ~Blocked
            /\ hpc' = "NewEvents"
            /\ cause' = "Other"
            /\ UNCHANGED exitCode
    /\ UNCHANGED <<cf, hostSticky, proxy, queue, drain, ret, now, spc, exitReq, enqSince>>
    /\ UNCHANGED <<taskVars, evVars, dispVars>>

\* A window or device event ends the host's wait
HostOsEvent ==
    /\ Blocked
    /\ hpc' = "NewEvents"
    /\ cause' = "Other"
    /\ UNCHANGED <<cf, hostSticky, proxy, queue, drain, ret, now, spc>>
    /\ UNCHANGED <<taskVars, exHistVars, evVars, dispVars>>

InitExec ==
    /\ InitSource
    /\ kind = [f \in Futures |-> KindOf(f)]
    /\ cur = NoFuture
    /\ tpc = "none"
    /\ tsched = FALSE
    /\ firstPollAt = -1
    /\ InitHost
    /\ hostSticky \in BOOLEAN
    /\ tkind \in {[t \in Tasks |-> IF t = MainTask THEN k ELSE "none"] : k \in Kinds}

NextExec ==
    \/ \E t \in Tasks, k \in Kinds : Spawn(t, k)
    \/ \E t \in Tasks : ForeignWake(t)
    \/ SchedWake
    \/ Advance
    \/ OnNewEvents
    \/ OnNewEventsTick
    \/ OnUserEvent
    \/ OnResumed
    \/ OnMainEventsCleared
    \/ RunOne
    \/ OnRedrawEventsCleared
    \/ HostNext
    \/ HostOsEvent

SpecExec == InitExec /\ [][NextExec]_vars

\* ------------------------------------------------------------ timers off the host
\* ExecutorHandle::wait on a thread other than the host's: the timer future
\* is created (timer.delay) and Wake is sent; nothing is registered yet
ForeignWait(t, d) ==
    /\ hpc # "Exited"
    /\ tst[t] = "new"
    /\ \A u \in Tasks : u < t => tst[u] # "new"
    /\ now + d <= MaxTime
    /\ tkind' = [tkind EXCEPT ![t] = "foreign"]
    /\ tdl' = [tdl EXCEPT ![t] = now + d]
    /\ tst' = [tst EXCEPT ![t] = "created"]
    /\ proxy' = Append(proxy, Wake)
    /\ UNCHANGED <<hpc, cause, cf, hostSticky, queue, drain, ret, now, spc, treg>>
    /\ UNCHANGED <<exHistVars, evVars, dispVars>>

\* That thread polls the future: the first poll is Ready when the deadline
\* has passed and registers the timer otherwise; a poll after the expiry
\* is Ready
ForeignTimerPoll(t) ==
    /\ hpc # "Exited"
    /\ tkind[t] = "foreign"
    /\ \/ /\ tst[t] = "created"
          /\ IF now >= tdl[t]
             THEN /\ tst' = [tst EXCEPT ![t] = "done"]
                  /\ UNCHANGED treg
             ELSE /\ tst' = [tst EXCEPT ![t] = "wait"]
                  /\ treg' = [treg EXCEPT ![t] = "registered"]
       \/ /\ tst[t] = "wait"
          /\ treg[t] = "expired"
          /\ tst' = [tst EXCEPT ![t] = "done"]
          /\ UNCHANGED treg
    /\ UNCHANGED <<tkind, tdl>>
    /\ UNCHANGED <<hostVars, exHistVars, evVars, dispVars>>

NextTimer ==
    \/ NextExec
    \/ \E t \in Tasks, d \in Delays : ForeignWait(t, d)
    \/ \E t \in Tasks : ForeignTimerPoll(t)

SpecTimer == InitExec /\ [][NextTimer]_vars

\* ------------------------------------------------------------ spawn_local
\* ExecutorHandle::new records the thread it runs on: run() calls it on the
\* thread that then runs the host's loop
Threads == {"host", "other"}
thread_id == "host"

\* spawn_local: `thread::current().id() != self.thread_id` panics
SpawnLocalChecked_unchecked(th) == TRUE
SpawnLocalChecked(th) == th = thread_id

\* spawn_local(fut) called on thread th: on the host thread by a task that
\* is being polled, on another thread at any time. After the check it is
\* spawn_unchecked: the schedule callback queues the runnable and sends Wake
SpawnLocal(t, k, th) ==
    /\ hpc # "Exited"
    /\ th = "host" => hpc = "Run"
    /\ Len(spawned) < NTasks
    /\ tst[t] = "new"
    /\ \A u \in Tasks : u < t => tst[u] # "new"
    /\ spc = NoTask
    /\ IF SpawnLocalChecked(th)
       THEN /\ tkind' = [tkind EXCEPT ![t] = k]
            /\ tst' = [tst EXCEPT ![t] = "start"]
            /\ SendRunnable(t)
            /\ proxy' = Append(proxy, Wake)
            /\ spawned' = Append(spawned, [on |-> th, task |-> t])
       ELSE /\ spawned' = Append(spawned, [on |-> th, task |-> NoTask])
            /\ UNCHANGED <<tkind, tst, queue, enqSince, proxy>>
    /\ UNCHANGED <<hpc, cause, cf, hostSticky, drain, ret, now, spc, tdl, treg,
                   exitReq, exitCode>>
    /\ UNCHANGED <<evVars, received, emitted, access, etVars>>

NextLocal ==
    \/ \E t \in Tasks, k \in Kinds, th \in Threads : SpawnLocal(t, k, th)
    \/ OnNewEvents
    \/ OnNewEventsTick
    \/ OnUserEvent
    \/ OnResumed
    \/ OnMainEventsCleared
    \/ RunOne
    \/ Advance
    \/ OnRedrawEventsCleared
    \/ HostNext
    \/ HostOsEvent

SpecLocal == InitExec /\ [][NextLocal]_vars

\* ------------------------------------------------------------ host events
\* EL_TARGET is set on the host thread for the time of poll_tasks' closure
TargetSet == hpc = "Run"

\* with_eventloop_target called at `at` ("task", "predicate", "thread"):
\* EL_TARGET.with succeeds when the target is set on the calling thread
TargetAccess(at) == [at |-> at, ok |-> at # "thread" /\ TargetSet]

\* The sources on_event emits a host event on: Window, Device and Redraw
\* events reach the arms `RedrawRequested(id) => {}` and `_ => {}`
EmittedFor(k) == IF k \in {"Resumed", "Suspended"} THEN <<k>> ELSE <<>>

\* Event::WindowEvent, Event::DeviceEvent, Event::RedrawRequested
OnWindowEvent(k) ==
    /\ hpc = IF k = "Redraw" THEN "Redraw" ELSE "UserEvents"
    /\ Len(received) < MaxHostEvents
    /\ received' = Append(received, k)
    /\ emitted' = emitted \o EmittedFor(k)
    /\ UNCHANGED <<hostVars, taskVars, exHistVars, evVars, access, spawned, etVars>>

\* Event::Resumed and Event::Suspended with the dispatch: a listener whose
\* predicate calls with_eventloop_target (create_window) is there or not;
\* the predicate runs inside dispatch, and a failed access panics
OnResumedEvent(k, p) ==
    /\ hpc = "UserEvents"
    /\ Len(received) < MaxHostEvents
    /\ received' = Append(received, k)
    /\ emitted' = emitted \o EmittedFor(k)
    /\ UNCHANGED <<spawned, etVars>>
    /\ IF p
       THEN /\ access' = Append(access, TargetAccess("predicate"))
            /\ IF TargetAccess("predicate").ok
               THEN OnResumedPoll
               ELSE /\ hpc' = "Exited"
                    /\ UNCHANGED <<cause, cf, hostSticky, proxy, queue, drain, ret,
                                   now, spc>>
                    /\ UNCHANGED <<taskVars, exHistVars, evVars>>
       ELSE /\ OnResumedPoll
            /\ UNCHANGED access

\* A task that calls with_eventloop_target when it is polled
RunOneTarget ==
    /\ Len(access) < MaxHostEvents
    /\ RunOneTask
    /\ access' = Append(access, TargetAccess("task"))
    /\ UNCHANGED <<received, emitted, spawned, etVars>>

\* with_eventloop_target called on another thread
ForeignTarget ==
    /\ hpc # "Exited"
    /\ Len(access) < MaxHostEvents
    /\ access' = Append(access, TargetAccess("thread"))
    /\ UNCHANGED <<hostVars, taskVars, exHistVars, evVars, received, emitted, spawned, etVars>>

NextDispatch ==
    \/ OnNewEvents
    \/ OnNewEventsTick
    \/ OnUserEvent
    \/ \E k \in {"Window", "Device", "Redraw"} : OnWindowEvent(k)
    \/ \E k \in {"Resumed", "Suspended"}, p \in BOOLEAN : OnResumedEvent(k, p)
    \/ OnMainEventsCleared
    \/ RunOne
    \/ RunOneTarget
    \/ ForeignTarget
    \/ OnRedrawEventsCleared
    \/ HostNext
    \/ HostOsEvent

SpecDispatch == InitExec /\ [][NextDispatch]_vars

\* ------------------------------------------------------------ ExecutorTimer
\* The timer futures the TimerService has registered: a future enters the
\* service's list at its first poll, deadline() only constructs it.
ERegistered == {e \in ETimers : est[e] = "registered"}

\* TimerService::next_expiration().unwrap_or(0): the earliest registered
\* timestamp after the expirations in E, 0 when nothing is registered.
service_next_expiration(E) ==
    LET R == ERegistered \ E
    IN IF R = {} THEN 0
       ELSE CHOOSE n \in {edl[e] : e \in R} : \A e \in R : n <= edl[e]

\* fetch_update of deadline(): the cached value is replaced by the
\* timestamp when it is 0 or later than the timestamp.
fetch_update(next, timestamp) ==
    IF next = 0 \/ next > timestamp THEN timestamp ELSE next

\* ExecutorTimer::deadline, first statement: service.deadline(timestamp)
\* constructs the future; the cache is not yet updated.
DeadlineService(e, timestamp) ==
    /\ est[e] = "new"
    /\ \A u \in ETimers : u < e => est[u] # "new"
    /\ est' = [est EXCEPT ![e] = "created"]
    /\ edl' = [edl EXCEPT ![e] = timestamp]
    /\ UNCHANGED <<next_expiration_cache, upc, unext, eclock, missed>>
    /\ UNCHANGED restVars

\* ExecutorTimer::deadline, second statement: the atomic fetch_update of
\* next_expiration; the future is returned, not yet polled.
DeadlineFetchUpdate(e) ==
    /\ est[e] = "created"
    /\ next_expiration_cache' = fetch_update(next_expiration_cache, edl[e])
    /\ est' = [est EXCEPT ![e] = "unpolled"]
    /\ UNCHANGED <<upc, unext, edl, eclock, missed>>
    /\ UNCHANGED restVars

\* The owner polls the TimerFuture: at its first poll it is Ready when the
\* clock has reached the timestamp and is registered otherwise; a
\* registered future is Ready once check_expirations expired it.
TimerFuturePoll(e) ==
    /\ est[e] \in {"unpolled", "expired"}
    /\ est' = [est EXCEPT ![e] =
                  IF est[e] = "expired" \/ eclock >= edl[e] THEN "done"
                  ELSE "registered"]
    /\ UNCHANGED <<next_expiration_cache, upc, unext, edl, eclock, missed>>
    /\ UNCHANGED restVars

\* update_next up to the store: the cache is loaded; 0 returns None, a
\* value above the clock returns WaitTimeout; otherwise check_expirations
\* runs and the service's next expiration is read, to be stored next.
UpdateNextLoad ==
    /\ upc = "idle"
    /\ LET next == next_expiration_cache
           E == IF next # 0 /\ next <= eclock
                THEN {e \in ERegistered : edl[e] <= eclock}
                ELSE {}
       IN /\ est' = [e \in ETimers |-> IF e \in E THEN "expired" ELSE est[e]]
          /\ IF next # 0 /\ next <= eclock
             THEN /\ upc' = "store"
                  /\ unext' = service_next_expiration(E)
             ELSE UNCHANGED <<upc, unext>>
          /\ missed' = missed \cup {e \in ERegistered \ E : edl[e] <= eclock}
    /\ UNCHANGED <<next_expiration_cache, edl, eclock>>
    /\ UNCHANGED restVars

\* update_next, the store of the value read from the service; Triggered.
UpdateNextStore ==
    /\ upc = "store"
    /\ next_expiration_cache' = unext
    /\ upc' = "idle"
    /\ UNCHANGED <<unext, est, edl, eclock, missed>>
    /\ UNCHANGED restVars

\* The monotonic clock advances by a millisecond.
ClockTick ==
    /\ eclock < MaxStamp
    /\ eclock' = eclock + 1
    /\ UNCHANGED <<next_expiration_cache, upc, unext, est, edl, missed>>
    /\ UNCHANGED restVars

NextCache ==
    \/ \E e \in ETimers, timestamp \in Timestamps : DeadlineService(e, timestamp)
    \/ \E e \in ETimers : DeadlineFetchUpdate(e)
    \/ \E e \in ETimers : TimerFuturePoll(e)
    \/ UpdateNextLoad
    \/ UpdateNextStore
    \/ ClockTick

SpecCache == Init /\ [][NextCache]_vars

\* ------------------------------------------------------------ claims C1..C7
Linked(f) == fstate[f] = "linked"
SomeIn(f) == \E i \in 1..Len(calls[f]) : calls[f][i].some
Evs(f) == [i \in 1..Len(calls[f]) |-> calls[f][i].ev]
FromTo(a, b) == [i \in 1..(b - a) |-> a + i]
\* The last emit whose walk has passed f (f is linked).
Passed(f) == IF epc = "walk" /\ f \notin Range(walk) THEN emitSeq - 1 ELSE emitSeq

\* C1 (as stated): a listener's predicate is invoked some times returning
\* None, then at most once returning Some, and never again after that: no
\* invocation follows one that returned Some.
C1_NoCallAfterSome ==
    \A f \in Futures : kind[f] = "on" =>
        \A i \in 1..Len(calls[f]) : calls[f][i].some => i = Len(calls[f])

\* C1 (amended): the first invocation that returns Some sets done, done is
\* never cleared by the invocations that later emits still make while the
\* listener is linked, and the listener is woken at most once, when done.
C1_DoneSetByFirstSomeAndKept ==
    \A f \in Futures : Linked(f) =>
        /\ item[f].done = SomeIn(f)
        /\ Len(wakes[f]) <= 1
        /\ (wakes[f] # <<>> => item[f].done)

C1_Witness ==
    \E f \in Futures :
        /\ kind[f] = "on" /\ Linked(f) /\ item[f].done
        /\ Len(calls[f]) = 2 /\ calls[f][1].some /\ ~calls[f][2].some

\* C2: a listener made by on() is in the list exactly from its first poll
\* until its drop; a Ready poll leaves it linked; each emit in that interval
\* invokes its predicate once, emits outside it never.
C2_LinkedFromFirstPollUntilDrop ==
    /\ \A f \in Futures : (f \in Range(list)) <=> Linked(f)
    /\ inPred # NoFuture => Linked(inPred)
    /\ \A f \in Futures : Linked(f) /\ kind[f] = "on" =>
           Evs(f) = FromTo(linkAt[f], Passed(f))
    /\ \A f \in Futures : ~Linked(f) => calls[f] = <<>>

C2_Witness ==
    \E f \in Futures :
        /\ kind[f] = "on" /\ ready[f] /\ fpc[f] = "dropWait" /\ linkAt[f] = 0
        /\ Len(calls[f]) = 2 /\ calls[f][1].some /\ calls[f][2].some

\* C4: one emit invokes the listeners linked when it starts once each, in
\* the order of their first polls, and goes on after a Some as after a None.
C4_InsertionOrderDispatch ==
    /\ \A i, j \in 1..Len(list) : i < j => linkNo[list[i]] < linkNo[list[j]]
    /\ epc = "walk" =>
        /\ list = snap
        /\ cursor \in 1..(Len(snap) + 1)
        /\ walk = SubSeq(snap, 1, cursor - 1)
        /\ (inPred # NoFuture => cursor <= Len(snap) /\ inPred = snap[cursor])

C4_Witness ==
    /\ epc = "walk" /\ snap = <<2, 1>> /\ walk = snap
    /\ item[2].done /\ calls[2][Len(calls[2])].some

\* C5: no emit is inside the closure of a future whose drop has completed,
\* every node of the list belongs to a live future, and a dropped future is
\* not in the list.
C5_DropSafety ==
    /\ inPred # NoFuture => fstate[inPred] = "linked"
    /\ \A i \in 1..Len(list) : fstate[list[i]] = "linked"
    /\ \A f \in Futures : fstate[f] = "dropped" => f \notin Range(list)

\* a drop waits for the lock while the emit is inside that future's closure
C5_Witness == \E f \in Futures : inPred = f /\ fpc[f] = "dropWait" /\ ~ready[f]

\* C6: the predicate given to once() returns Some at most once and is not
\* invoked after that; the future resolves to the payload of that call.
C6_OnceAtMostOneSome ==
    \A f \in Futures : kind[f] = "once" =>
        /\ \A i \in 1..Len(calls[f]) : calls[f][i].some => i = Len(calls[f])
        /\ (res[f] # 0) = SomeIn(f)
        /\ ready[f] => SomeIn(f) /\ output[f] = calls[f][Len(calls[f])].ev

\* two emits passed the listener before its task was polled again
C6_Witness ==
    \E f \in Futures :
        /\ kind[f] = "once" /\ Linked(f) /\ ~ready[f] /\ fpc[f] = "idle"
        /\ epc = "idle" /\ emitSeq = 2 /\ linkAt[f] = 0
        /\ calls[f] = <<[ev |-> 1, some |-> TRUE]>>

\* C3 (as stated): a poll returns Ready only after the predicate returned
\* Some, and once it has, the waker of the task that awaits the future (the
\* one its latest Pending poll supplied) has been woken.
C3_ReadyIffSomeAndWoken ==
    \A f \in Futures : Linked(f) =>
        /\ ready[f] => SomeIn(f)
        /\ item[f].done => awaiting[f] \in Range(wakes[f])

\* C7: the predicates of the looping task see the payloads emitted since its
\* first poll, each once, in the order of emission.
C7_LoopObservesEachEventOnce ==
    tpc \notin {"none", "spawned"} =>
        observed = FromTo(firstPollAt,
                          IF tpc = "await" THEN Passed(cur) ELSE emitSeq)

\* events 2 and 3 arrived before the task was polled again
C7_Witness ==
    /\ tpc = "await" /\ cur = 2 /\ firstPollAt = 0 /\ epc = "idle"
    /\ observed = <<1, 2, 3>> /\ Len(calls[cur]) = 2

\* ------------------------------------------------------------ claims C8..C10
Pending == queue \o drain

TimerTasks == {t \in Tasks : tkind[t] = "timer" /\ tdl[t] # -1}

C11_HostWaitsNoLongerThanNewDeadline ==
    Blocked => \A t \in Registered : cf.t = "WaitUntil" /\ cf.v <= tdl[t]

\* C11, the case in which it fails: a timer awaited on another thread is
\* registered, its Wake has been delivered, and the host is blocked in Wait.
C11_Witness ==
    /\ Blocked
    /\ cf.t = "Wait"
    /\ \E t \in Registered : tkind[t] = "foreign"

\* C12: at the end of each host iteration the bridge has requested a wait
\* until the earliest registered deadline when there is one (Poll when it
\* has passed already) and Wait when there is none.
C12_WaitUntilEarliestDeadline ==
    hpc = "Waiting" /\ cf.t # "Exit" =>
        IF Registered = {}
        THEN cf = ControlFlow("Wait", 0)
        ELSE \/ cf = ControlFlow("WaitUntil", next_expiration)
             \/ cf = ControlFlow("Poll", 0)

\* C13: every window, device, redraw, resumed and suspended event the bridge
\* receives is emitted on its event source, in the order of the host's
\* events.
C13_EveryHostEventEmitted == emitted = received

\* C13, the case in which it fails: the bridge has received a window, device
\* or redraw event.
C13_Witness ==
    /\ received # <<>>
    /\ received[Len(received)] \in {"Window", "Device", "Redraw"}

\* C14: with_eventloop_target succeeds inside a task poll and inside a
\* predicate invoked while the bridge dispatches Resumed or Suspended, and
\* fails anywhere else.
C14_TargetInCallbackOnly ==
    \A i \in 1..Len(access) : access[i].ok <=> access[i].at \in {"task", "predicate"}

\* C14, the case in which it fails: a predicate invoked by the dispatch of
\* Resumed has called with_eventloop_target.
C14_Witness ==
    \E i \in 1..Len(access) : access[i].at = "predicate"

\* C15: a predicate that calls emit on the source whose emit is in progress
\* gets a panic: the host thread never hangs in the nested emit and the
\* listener list is never walked by a nested emit.
C15_ReentrantEmitPanics == epc \in {"idle", "walk", "panicked"}

\* C16: spawn_local called on a thread other than the one the handle was
\* constructed on panics and schedules no task (nothing is queued, no Wake
\* is sent, no task is created); called on the host thread it schedules the
\* task as spawn does: the runnable is queued and a Wake is sent.
C16_SpawnLocalOffThreadPanics ==
    [][Len(spawned') > Len(spawned) =>
          LET c == spawned'[Len(spawned')]
          IN IF c.on = thread_id
             THEN /\ c.task # NoTask
                  /\ tst[c.task] = "new"
                  /\ tst'[c.task] = "start"
                  /\ queue' = Append(queue, c.task)
                  /\ proxy' = Append(proxy, Wake)
             ELSE /\ c.task = NoTask
                  /\ UNCHANGED <<queue, proxy, taskVars>>]_vars

\* C16 witness: spawn_local has been called on another thread and on the
\* host thread, and the task spawned on the host thread has run.
C16_Witness ==
    /\ \E i \in 1..Len(spawned) : spawned[i].on = "other"
    /\ \E i \in 1..Len(spawned) : spawned[i].on = "host" /\ tst[spawned[i].task] = "done"

\* C17: when a pending listener is polled again with a waker different from
\* the stored one, the stored waker is replaced: the waker stored for a not
\* done listener is the one its most recent poll supplied.
C17_StoredWakerIsLatest ==
    \A f \in Futures :
        Linked(f) /\ ~item[f].done /\ awaiting[f] # NoWaker =>
            item[f].waker = awaiting[f]

\* C17, the case in which it fails: a pending listener has been polled with
\* a waker other than the stored one.
C17_Witness ==
    \E f \in Futures :
        /\ Linked(f) /\ ~item[f].done
        /\ item[f].waker # NoWaker
        /\ awaiting[f] \notin {NoWaker, item[f].waker}

\* C18: emit wakes a listener only in the step in which the listener becomes
\* done: a predicate returning None for a not done listener wakes nothing,
\* and a listener already done is not woken again; so a listener is woken
\* at most once, and only when done.
C18_WakeOnlyOnCompletion ==
    /\ [](\A f \in Futures : Len(wakes[f]) <= 1 /\ (wakes[f] # <<>> => item[f].done))
    /\ [][\A f \in Futures :
            Len(wakes'[f]) > Len(wakes[f]) => ~item[f].done /\ item'[f].done]_vars

\* C18 witness: a listener from on() was woken by the emit whose call
\* returned Some and was called again by the next emit, with Some again,
\* without a second wake; another listener was called with None only and
\* was not woken.
C18_Witness ==
    \E f, g \in Futures :
        /\ Linked(f) /\ Linked(g) /\ epc = "idle"
        /\ Len(calls[f]) = 2 /\ calls[f][1].some /\ calls[f][2].some
        /\ Len(wakes[f]) = 1
        /\ calls[g] # <<>> /\ ~SomeIn(g) /\ wakes[g] = <<>>

RunOrder == drain \o queue
IsPrefix(p, q) == Len(p) <= Len(q) /\ SubSeq(q, 1, Len(p)) = p

\* C20: runnables are run in the order in which they were scheduled: a
\* newly scheduled runnable goes behind all those scheduled and not yet run,
\* and the bridge runs the one scheduled first; no step reorders them.
C20_RunnablesRunInScheduleOrder ==
    [][/\ IsPrefix(RunOrder, RunOrder') \/ RunOrder' = Tail(RunOrder)
       /\ \A t \in Tasks :
            tst[t] \in {"start", "wait"} /\ tst'[t] # tst[t] =>
                /\ RunOrder # <<>>
                /\ t = Head(RunOrder)
                /\ RunOrder' = Tail(RunOrder)]_vars

\* C20 witness: of two tasks spawned one after the other and drained by the
\* poll_tasks of NewEvents(Init), the first has run and the second is about to.
C20_Witness ==
    /\ hpc = "Run"
    /\ queue = <<>>
    /\ Len(drain) = 1
    /\ tst[Head(drain)] = "start"
    /\ ret = "Tick"
    /\ \E a \in Tasks : a < Head(drain) /\ tst[a] \in {"wait", "done"}

\* ------------------------------------------------------------ claims C21..C23
\* No call of deadline or update_next is in progress.
NoCallInProgress == upc = "idle" /\ \A e \in ETimers : est[e] # "created"

\* Every deadline call made so far had a timestamp above 0.
PositiveStamps == \A e \in ETimers : edl[e] # 0

\* C21: when every deadline call had t > 0 and no call of deadline or
\* update_next is in progress, for every timer that the service has
\* registered and not yet expired the cached next_expiration is non-zero
\* and at most t, so update_next does not return None while a timer is
\* pending.
C21_CacheCoversPendingTimers ==
    NoCallInProgress /\ PositiveStamps =>
        \A e \in ETimers :
            est[e] = "registered" /\ edl[e] > 0 =>
                next_expiration_cache # 0 /\ next_expiration_cache <= edl[e]

\* C21 witness: a timer is registered and pending after an update_next
\* call has expired an earlier one and stored the service's next expiration.
C21_Witness ==
    /\ NoCallInProgress
    /\ PositiveStamps
    /\ \E e, u \in ETimers :
          /\ est[e] = "registered" /\ edl[e] > 0
          /\ est[u] \in {"expired", "done"} /\ edl[u] > 0 /\ edl[u] < edl[e]
          /\ next_expiration_cache = edl[e]

\* C22 (first half): no timer future is expired or completed while the
\* clock is below its timestamp.
C22_NotCompletedBeforeTimestamp ==
    \A e \in ETimers : est[e] \in {"expired", "done"} => eclock >= edl[e]

\* C22: for every timestamp t, 0 and timestamps already passed included,
\* the future of deadline(t) is not completed while the clock is below t,
\* and no update_next call made with the clock at or after t leaves it
\* registered and not expired.
C22_DeadlineExpiredByFirstUpdate ==
    /\ C22_NotCompletedBeforeTimestamp
    /\ missed = {}

\* C22 witness: a future of deadline(0) and a future of a later timestamp
\* have both completed, the later one expired by an update_next call.
C22_Witness ==
    /\ \E e, u \in ETimers :
          /\ edl[e] = 0 /\ est[e] = "done"
          /\ edl[u] > 0 /\ est[u] = "done" /\ next_expiration_cache = 0
    /\ upc = "idle"

\* The Exit(0) that run posts when the main future completes is in the
\* host's proxy queue, not yet handled.
ExitZeroPosted == \E i \in 1..Len(proxy) : proxy[i] = UserEvent("Exit", 0)

\* C23 (second half): the host loop has not terminated unless the bridge
\* handled an Exit event.
C23_NoExitOnItsOwn == hpc = "Exited" => exitReq # -1

====
